---- MODULE Spec2Model ----
(***************************************************************************)
(* Model of mlops-infra/app/train.py: the MLTrainer work loop, its push    *)
(* client (push_metrics_to_prometheus), the HealthCheckServer and main.    *)
(*                                                                         *)
(* Fixed-point numbers: accuracy and loss are integers in units of 1e-4    *)
(* (round(x, 4)), the utilisation percentages in units of 1e-2             *)
(* (round(x, 2)), the learning rate in units of 1e-9.  Wall-clock values   *)
(* (the samples' timestamp, training_time_seconds, the start/end           *)
(* timestamp gauges) are not modelled.                                     *)
(***************************************************************************)
EXTENDS Integers, Sequences, FiniteSets, TLC

\* ---------------------------------------------------------------- bounds
\* Largest configured number of epochs a run is started with.
MaxEpochs == 4
\* Largest number of run_training calls on one trainer.
MaxRuns == 2
\* Largest number of shutdowns a caller of stop() goes on calling it after.
MaxStops == 2
\* Largest configured number of epochs when the classes are used directly.
MaxApiEpochs == 1
\* Largest configured number of epochs the sample generator is called with.
MaxGenEpochs == 7
\* Largest configured number of epochs of a run followed to its end.
MaxLiveEpochs == 2

\* ------------------------------------------------------- program constants
\* Mutant: a fourth attempt.
max_retries_Four == 3 + 1
max_retries == 3
base_delay == 1
batch_size == 32
AccuracyCap == 9500
LossFloor == 1000

\* Strings the program inspects character by character are sequences of
\* one-character strings.
ModelName == << "d", "e", "m", "o", "-", "m", "o", "d", "e", "l" >>
ModelVersion == "1.0.0"

\* A gauge of the registry that has no sample for the run's labels yet.
NoValue == -1

\* ------------------------------------------------------------ environment
\* What one call of push_to_gateway can do: return, or raise one of the
\* exception classes the push client distinguishes.
Failures == {"Timeout", "ConnectionError", "RequestException", "Exception"}
Outcomes == {"ok"} \cup Failures

\* The values the random source yields for one epoch: the accuracy noise
\* (uniform in [-0.05, 0.05]), the loss noise (uniform in [-0.1, 0.1]), the
\* CPU, memory and GPU utilisation (GPU is 0 with probability 0.3).
RandomDraws ==
    { [acc |-> -500, loss |-> 1000,  cpu |-> 6000, mem |-> 7000, gpu |-> 0],
      [acc |-> 500,  loss |-> -1000, cpu |-> 9000, mem |-> 8500, gpu |-> 9500] }

\* The factor of the validation accuracy, uniform in [0.95, 1.05], in percent.
ValidationFactors == {95, 105}

\* The paths of the requests sent to the health check server.
Paths == {"/health", "/nope"}

\* The exception the sample generator raises when it is made to fail.
GeneratorError == "Test error"
\* The exception an operator's Ctrl+C raises in the main thread.
KeyboardInterrupt == "KeyboardInterrupt"
\* str(IndexError) of self.metrics[-1] on an empty list.
IndexError == "list index out of range"

VARIABLES
    model_name,               \* MLTrainer.model_name
    epochs,                   \* MLTrainer.epochs
    metrics,                  \* MLTrainer.metrics: the samples, in order
    accuracy_gauge, loss_gauge, cpu_gauge, memory_gauge,
    epoch_counter,            \* ml_training_epochs_total
    metrics_failure_counter,  \* ml_training_metrics_failures_total
    pc,                       \* position of the main thread
    epoch,                    \* loop variable of run_training
    current,                  \* the sample train_epoch is pushing
    attempt,                  \* loop variable of push_metrics_to_prometheus
    events,                   \* gateway calls and sleeps of the current push
    gateway,                  \* the gateway's count of calls and failures
    emitted,                  \* log records written by the last step
    results,                  \* what run_training returned
    saved,                    \* the file save_metrics writes
    exit_code,                \* what main returned
    server,                   \* HealthCheckServer.server
    request,                  \* path of the request the server is handling
    response,                 \* the last response the server wrote
    observed,                 \* epochs_completed of the last /health answer
    runs,                     \* number of run_training calls made so far
    shutdowns,                \* number of shutdowns stop() has carried out
    interrupted,              \* a KeyboardInterrupt was raised in main
    shutdown_request,         \* the server's shutdown flag, set by shutdown()
    env_int,                  \* the last get_env_int call and its result
    validated                 \* the last call of a validation function

vars == << model_name, epochs, metrics, accuracy_gauge, loss_gauge, cpu_gauge,
           memory_gauge, epoch_counter, metrics_failure_counter, pc, epoch,
           current, attempt, events, gateway, emitted, results, saved,
           exit_code, server, request, response, observed, runs, shutdowns,
           interrupted, shutdown_request, env_int, validated >>

trainerVars == << model_name, epochs, metrics >>
registryVars == << accuracy_gauge, loss_gauge, cpu_gauge, memory_gauge,
                   epoch_counter, metrics_failure_counter >>
pushVars == << current, attempt, events, gateway >>
healthVars == << request, response, observed >>
callVars == << runs, shutdowns, interrupted, env_int, validated >>

NoSample == [epoch |-> 0]
NoResults == [status |-> "none"]
NoSnapshot == [written |-> FALSE]
NoResponse == [code |-> 0]
NoExit == -1
NoCall == [called |-> FALSE]

\* ------------------------------------------------------------- arithmetic
RECURSIVE Pow(_, _)
Pow(b, n) == IF n = 0 THEN 1 ELSE b * Pow(b, n - 1)

\* round(n / d) for d > 0, ties to even, as Python's round().
RoundDiv(n, d) ==
    LET q == n \div d
        r == n % d
    IN  IF 2 * r < d THEN q
        ELSE IF 2 * r > d THEN q + 1
        ELSE IF q % 2 = 0 THEN q ELSE q + 1

Min(a, b) == IF a <= b THEN a ELSE b
Max(a, b) == IF a >= b THEN a ELSE b

RECURSIVE MaxAccuracy(_)
MaxAccuracy(ms) ==
    IF Len(ms) = 1 THEN ms[1].accuracy
    ELSE Max(ms[1].accuracy, MaxAccuracy(Tail(ms)))

\* ---------------------------------------------------------------- strings
Digits == << "0", "1", "2", "3", "4", "5", "6", "7", "8", "9" >>
IsDigit(c) == \E i \in 1..10 : Digits[i] = c
DigitValue(c) == (CHOOSE i \in 1..10 : Digits[i] = c) - 1

Whitespace == {" ", "\t", "\n"}

\* The characters of the class [a-zA-Z0-9_-].
NameChars ==
    { "a", "b", "c", "d", "e", "f", "g", "h", "i", "j", "k", "l", "m",
      "n", "o", "p", "q", "r", "s", "t", "u", "v", "w", "x", "y", "z",
      "A", "B", "C", "D", "E", "F", "G", "H", "I", "J", "K", "L", "M",
      "N", "O", "P", "Q", "R", "S", "T", "U", "V", "W", "X", "Y", "Z",
      "0", "1", "2", "3", "4", "5", "6", "7", "8", "9", "_", "-" }

\* str.strip(): leading and trailing whitespace removed.
RECURSIVE StripLeft(_)
StripLeft(s) ==
    IF s # << >> /\ s[1] \in Whitespace THEN StripLeft(Tail(s)) ELSE s

RECURSIVE StripRight(_)
StripRight(s) ==
    IF s # << >> /\ s[Len(s)] \in Whitespace
    THEN StripRight(SubSeq(s, 1, Len(s) - 1))
    ELSE s

Strip(s) == StripRight(StripLeft(s))

\* The value of a sequence of digits and underscores.
RECURSIVE DigitsValue(_, _)
DigitsValue(s, acc) ==
    IF s = << >> THEN acc
    ELSE IF s[1] = "_" THEN DigitsValue(Tail(s), acc)
    ELSE DigitsValue(Tail(s), 10 * acc + DigitValue(s[1]))

\* int(s) of a str: surrounding whitespace, an optional sign, decimal digits
\* with single underscores between them; ok is FALSE where int() raises
\* ValueError.
ParseInt(s) ==
    LET t      == Strip(s)
        signed == t # << >> /\ t[1] \in {"+", "-"}
        body   == IF signed THEN Tail(t) ELSE t
        valid  == /\ body # << >>
                  /\ \A i \in 1..Len(body) : IsDigit(body[i]) \/ body[i] = "_"
                  /\ IsDigit(body[1])
                  /\ IsDigit(body[Len(body)])
                  /\ \A i \in 1..(Len(body) - 1) :
                        ~(body[i] = "_" /\ body[i + 1] = "_")
        value  == IF valid THEN DigitsValue(body, 0) ELSE 0
    IN  [ ok    |-> valid,
          value |-> IF signed /\ t[1] = "-" THEN 0 - value ELSE value ]

\* str(n) of an int.
RECURSIVE StrNat(_)
StrNat(n) ==
    IF n < 10 THEN << Digits[n + 1] >>
    ELSE Append(StrNat(n \div 10), Digits[(n % 10) + 1])

Str(n) == IF n < 0 THEN << "-" >> \o StrNat(0 - n) ELSE StrNat(n)

\* An environment variable: unset, or set to a value.
Unset == [set |-> FALSE, value |-> << >>]
SetTo(v) == [set |-> TRUE, value |-> v]

\* os.getenv(var, default)
Getenv(var, default) == IF var.set THEN var.value ELSE default

\* ---------------------------------------------------------- configuration
\* Mutant: the default is returned as it is when int() raises.
GetEnvInt_DefaultUnclamped(var, default, min_val, max_val) ==
    LET parsed == ParseInt(Getenv(var, Str(default)))
        below  == IF parsed.value < min_val THEN min_val ELSE parsed.value
    IN  IF ~parsed.ok THEN default
        ELSE IF below > max_val THEN max_val ELSE below

\* get_env_int(env_var, default, min_val, max_val)
GetEnvInt(var, default, min_val, max_val) ==
    LET parsed == ParseInt(Getenv(var, Str(default)))
        value  == IF parsed.ok THEN parsed.value ELSE default
        below  == IF value < min_val THEN min_val ELSE value
    IN  IF below > max_val THEN max_val ELSE below

\* The log records of get_env_int: one warning for an invalid value, one
\* for each bound applied.
GetEnvIntWarnings(var, default, min_val, max_val) ==
    LET parsed == ParseInt(Getenv(var, Str(default)))
        value  == IF parsed.ok THEN parsed.value ELSE default
        below  == IF value < min_val THEN min_val ELSE value
    IN  (IF parsed.ok THEN << >> ELSE << "invalid" >>)
        \o (IF value < min_val THEN << "below_minimum" >> ELSE << >>)
        \o (IF below > max_val THEN << "above_maximum" >> ELSE << >>)

\* The match of ^[a-zA-Z0-9_-]+$ : "$" also matches before a final newline.
NameMatches(name) ==
    LET core == IF name # << >> /\ name[Len(name)] = "\n"
                THEN SubSeq(name, 1, Len(name) - 1)
                ELSE name
    IN  /\ core # << >>
        /\ \A i \in 1..Len(core) : core[i] \in NameChars

\* validate_model_name: ok is FALSE where it raises ValueError.
ValidateModelName(name) ==
    IF name = << >> THEN [ok |-> FALSE, value |-> name]
    ELSE IF ~NameMatches(name) THEN [ok |-> FALSE, value |-> name]
    ELSE IF Len(name) < 3 THEN [ok |-> FALSE, value |-> name]
    ELSE IF Len(name) > 50 THEN [ok |-> FALSE, value |-> name]
    ELSE [ok |-> TRUE, value |-> name]

\* Mutant: no upper bound on the number of epochs.
ValidateTrainingEpochs_NoUpperBound(epochs_str) ==
    LET parsed == ParseInt(epochs_str)
    IN  IF ~parsed.ok THEN [ok |-> FALSE, value |-> 0]
        ELSE IF parsed.value < 1 THEN [ok |-> FALSE, value |-> parsed.value]
        ELSE [ok |-> TRUE, value |-> parsed.value]

\* validate_training_epochs: ok is FALSE where it raises ValueError.
ValidateTrainingEpochs(epochs_str) ==
    LET parsed == ParseInt(epochs_str)
    IN  IF ~parsed.ok THEN [ok |-> FALSE, value |-> 0]
        ELSE IF parsed.value < 1 THEN [ok |-> FALSE, value |-> parsed.value]
        ELSE IF parsed.value > 1000
             THEN [ok |-> FALSE, value |-> parsed.value]
        ELSE [ok |-> TRUE, value |-> parsed.value]

\* ------------------------------------------------------ sample generator
\* Mutant: the rate decays after every 3 epochs, counted from epoch 1.
LearningRate_ZeroBased(e) ==
    Pow(9, (e - 1) \div 3) * Pow(10, 6 - ((e - 1) \div 3))

\* learning_rate = 0.001 * 0.9 ** (epoch // 3), in units of 1e-9.
LearningRate(e) == Pow(9, e \div 3) * Pow(10, 6 - (e \div 3))

\* Mutant: the sample is numbered from 0.
GenerateTrainingMetrics_ZeroBased(e, d) ==
    LET accuracy == Min(AccuracyCap * epochs,
                        6000 * epochs + 3000 * e + d.acc * epochs)
        loss     == Max(LossFloor * epochs,
                        10000 * epochs - 7000 * e + d.loss * epochs)
    IN  [ epoch                |-> e - 1,
          accuracy             |-> RoundDiv(accuracy, epochs),
          loss                 |-> RoundDiv(loss, epochs),
          learning_rate        |-> LearningRate(e),
          cpu_usage_percent    |-> d.cpu,
          memory_usage_percent |-> d.mem,
          gpu_usage_percent    |-> d.gpu,
          batch_size           |-> batch_size,
          model_name           |-> model_name ]

\* generate_training_metrics(epoch) with the random values of draw d.
GenerateTrainingMetrics(e, d) ==
    LET accuracy == Min(AccuracyCap * epochs,
                        6000 * epochs + 3000 * e + d.acc * epochs)
        loss     == Max(LossFloor * epochs,
                        10000 * epochs - 7000 * e + d.loss * epochs)
    IN  [ epoch                |-> e,
          accuracy             |-> RoundDiv(accuracy, epochs),
          loss                 |-> RoundDiv(loss, epochs),
          learning_rate        |-> LearningRate(e),
          cpu_usage_percent    |-> d.cpu,
          memory_usage_percent |-> d.mem,
          gpu_usage_percent    |-> d.gpu,
          batch_size           |-> batch_size,
          model_name           |-> model_name ]

\* Mutant: the dictionary is appended before it is filled.
AppendSample_Torn(ms, m) == Append(ms, [epoch |-> m.epoch])

\* Mutant: the sample is appended by train_epoch and again by its caller.
AppendSample_Twice(ms, m) == Append(Append(ms, m), m)

\* self.metrics.append(metrics)
AppendSample(ms, m) == Append(ms, m)

SampleFields == { "epoch", "accuracy", "loss", "learning_rate",
                  "cpu_usage_percent", "memory_usage_percent",
                  "gpu_usage_percent", "batch_size", "model_name" }

\* ------------------------------------------------------------ push client
\* Mutant: no catch-all "except Exception" clause.
Caught_NoCatchAll(outcome) ==
    outcome \in {"Timeout", "ConnectionError", "RequestException"}

\* Mutant: only "except Timeout" and "except ConnectionError".
Caught_TransportOnly(outcome) ==
    outcome \in {"Timeout", "ConnectionError"}

\* The except clauses of push_metrics_to_prometheus: the exception classes a
\* failed attempt is caught as.
Caught(outcome) ==
    outcome \in {"Timeout", "ConnectionError", "RequestException", "Exception"}

\* Mutant: a constant delay, no exponential backoff.
Delay_Constant(a) == base_delay

\* delay = base_delay * (2 ** attempt)
Delay(a) == base_delay * Pow(2, a)

\* Mutant: the failure counter is not incremented.
IncFailure_Missing(c) == c

\* The failure counter after a failed attempt.
IncFailure(c) == c + 1

\* Mutant: the client sleeps after every failed attempt, the last included.
HasNextAttempt_Always(a) == TRUE

\* "if attempt < max_retries - 1": another attempt follows attempt a, the
\* client sleeps before it.
HasNextAttempt(a) == a < max_retries - 1

\* Mutant: the retry loop is left after its first iteration.
RetryLoopContinues_Never(a) == FALSE

\* "for attempt in range(max_retries)": an iteration follows iteration a.
RetryLoopContinues(a) == a + 1 < max_retries

\* self.registry as push_to_gateway sends it: the metrics the trainer
\* registers, with the values they hold for the run's labels (the two
\* timestamp gauges hold wall-clock values).
Registry ==
    [ ml_training_accuracy                |-> accuracy_gauge,
      ml_training_loss                    |-> loss_gauge,
      ml_training_epochs_total            |-> epoch_counter,
      ml_training_cpu_usage_percent       |-> cpu_gauge,
      ml_training_memory_usage_percent    |-> memory_gauge,
      ml_training_metrics_failures_total  |-> metrics_failure_counter,
      ml_training_start_timestamp         |-> "time",
      ml_training_end_timestamp           |-> "time" ]

\* The labels every metric of the registry is set with.
Labels == [model_name |-> model_name, model_version |-> ModelVersion]

\* The field of the sample each gauge is set from in an attempt.
GaugeField ==
    [ ml_training_accuracy             |-> "accuracy",
      ml_training_loss                 |-> "loss",
      ml_training_cpu_usage_percent    |-> "cpu_usage_percent",
      ml_training_memory_usage_percent |-> "memory_usage_percent" ]

\* What the push client does, in order: a call of push_to_gateway that
\* returned (ok) or raised, or a time.sleep of delay seconds.
Call(outcome) == [type |-> "call", ok |-> outcome = "ok", delay |-> 0]
Sleep(delay) == [type |-> "sleep", ok |-> FALSE, delay |-> delay]

\* Mutant: the record carries the loop variable, counted from 0.
FailureRecord_ZeroBased(outcome, a) ==
    [ level   |-> IF outcome = "Exception" THEN "error" ELSE "warning",
      kind    |-> outcome,
      attempt |-> a ]

\* The log record of a failed attempt.
FailureRecord(outcome, a) ==
    [ level   |-> IF outcome = "Exception" THEN "error" ELSE "warning",
      kind    |-> outcome,
      attempt |-> a + 1 ]

TerminalRecord == [ level |-> "error", kind |-> "push_failed",
                    attempt |-> max_retries ]

\* The "Retrying in ... seconds" record written before a backoff sleep.
RetryRecord(a) == [ level |-> "info", kind |-> "retrying", attempt |-> a + 1 ]

\* ------------------------------------------------------------ run summary
\* Mutant: best_accuracy is taken from the last sample.
CompletedResults_BestIsLast ==
    [ model_name     |-> model_name,
      final_accuracy |-> metrics[Len(metrics)].accuracy,
      total_epochs   |-> epochs,
      status         |-> "completed",
      best_accuracy  |-> metrics[Len(metrics)].accuracy,
      final_loss     |-> metrics[Len(metrics)].loss ]

\* The dictionary run_training returns after the loop.
CompletedResults ==
    [ model_name     |-> model_name,
      final_accuracy |-> metrics[Len(metrics)].accuracy,
      total_epochs   |-> epochs,
      status         |-> "completed",
      best_accuracy  |-> MaxAccuracy(metrics),
      final_loss     |-> metrics[Len(metrics)].loss ]

\* Mutant: epochs_completed is the loop variable, not len(self.metrics).
FailedResults_LoopVariable(e) ==
    [ model_name       |-> model_name,
      status           |-> "failed",
      error            |-> e,
      epochs_completed |-> epoch ]

\* The dictionary run_training returns from its except clause.
FailedResults(e) ==
    [ model_name       |-> model_name,
      status           |-> "failed",
      error            |-> e,
      epochs_completed |-> Len(metrics) ]

\* ---------------------------------------------------------- health check
\* Mutant: epochs_completed is the epoch in progress.
HealthData_EpochInProgress ==
    [ status           |-> "healthy",
      model_name       |-> model_name,
      epochs_completed |-> epoch,
      total_epochs     |-> epochs ]

\* The JSON body do_GET writes for /health.
HealthData ==
    [ status           |-> "healthy",
      model_name       |-> model_name,
      epochs_completed |-> Len(metrics),
      total_epochs     |-> epochs ]

\* do_GET: the response to a GET on path p.
DoGetResponse(p) ==
    IF p = "/health"
    THEN [ code |-> 200, content_type |-> "application/json",
           path |-> p, body |-> HealthData ]
    ELSE [ code |-> 404, content_type |-> "", path |-> p,
           body |-> NoResults ]

\* ------------------------------------------------------------------ Init
\* The state of main after MLTrainer and HealthCheckServer are constructed.
InitRest ==
    /\ metrics = << >>
    /\ accuracy_gauge = NoValue
    /\ loss_gauge = NoValue
    /\ cpu_gauge = NoValue
    /\ memory_gauge = NoValue
    /\ epoch_counter = 0
    /\ metrics_failure_counter = 0
    /\ epoch = 0
    /\ current = NoSample
    /\ attempt = 0
    /\ events = << >>
    /\ gateway = [calls |-> 0, failed |-> 0]
    /\ emitted = << >>
    /\ results = NoResults
    /\ saved = NoSnapshot
    /\ exit_code = NoExit
    /\ server = "none"
    /\ request = "none"
    /\ response = NoResponse
    /\ observed = NoValue
    /\ runs = 0
    /\ shutdowns = 0
    /\ interrupted = FALSE
    /\ shutdown_request = FALSE
    /\ env_int = NoCall
    /\ validated = NoCall

Init ==
    /\ model_name = ModelName
    /\ epochs \in 0..MaxEpochs
    /\ pc = "start"
    /\ InitRest

\* --------------------------------------------------------------- actions
\* "for epoch in range(1, self.epochs + 1)": an epoch follows epoch e.
LoopContinues(e) == e < epochs

\* What HealthCheckServer.start can meet: the listener is bound and the
\* thread started; HTTPServer(...) raises (the port cannot be bound); or the
\* listener is bound and Thread.start() raises.
StartOutcomes == {"started", "bind_failed", "thread_failed"}

\* self.server after start(): None, a server served by the daemon thread,
\* or a bound server whose serve_forever never runs.
StartServer(outcome) ==
    IF outcome = "started" THEN "serving"
    ELSE IF outcome = "bind_failed" THEN "none"
    ELSE "unserved"

\* HealthCheckServer.start: the listener is bound and served by a daemon
\* thread, or the failure is logged.
HealthStart ==
    /\ pc = "start"
    /\ \E outcome \in StartOutcomes :
         /\ server' = StartServer(outcome)
         /\ emitted' = IF outcome = "started"
                       THEN << [level |-> "info", kind |-> "health_started",
                                attempt |-> 0] >>
                       ELSE << [level |-> "error", kind |-> "health_failed",
                                attempt |-> 0] >>
    /\ pc' = "run"
    /\ UNCHANGED << callVars, trainerVars, registryVars, pushVars, healthVars,
                    epoch, results, saved, exit_code, shutdown_request >>

\* "if self.server:" of stop(): the shutdown is carried out.  self.server
\* is never reset, so this also holds for a server already shut down.
StopActs(s) == s \in {"serving", "unserved", "closed"}

\* server.shutdown() waits for serve_forever to finish; it never returns
\* when serve_forever was never started.
StopBlocks(s) == s = "unserved"

\* Mutant: stop() does nothing.
StopServer_Noop(s) == s

\* self.server after stop() returned.
StopServer(s) == IF StopActs(s) THEN "closed" ELSE s

\* The log records of a stop() that returned.
StopRecords(s) ==
    IF StopActs(s)
    THEN << [level |-> "info", kind |-> "health_stopped", attempt |-> 0] >>
    ELSE << >>

\* run_training up to the training loop.
RunTraining ==
    /\ pc = "run"
    /\ pc' = "loop"
    /\ runs' = runs + 1
    /\ emitted' = << >>
    /\ UNCHANGED << shutdowns, interrupted, env_int, validated, trainerVars, registryVars, pushVars, healthVars, epoch,
                    results, saved, exit_code, server, shutdown_request >>

\* The loop head of run_training and train_epoch up to its time.sleep.
TrainEpochBegin ==
    /\ pc = "loop"
    /\ LoopContinues(epoch)
    /\ epoch' = epoch + 1
    /\ pc' = "training"
    /\ emitted' = << >>
    /\ UNCHANGED << callVars, trainerVars, registryVars, pushVars, healthVars,
                    results, saved, exit_code, server, shutdown_request >>

\* Mutant: a placeholder for the sample is appended before the generator
\* is called.
TrainEpochFault_Partial ==
    /\ metrics' = Append(metrics, [epoch |-> epoch])
    /\ UNCHANGED pushVars

\* train_epoch when generate_training_metrics raises: the append and the
\* push that follow the call are not reached.
TrainEpochFault == UNCHANGED << metrics, pushVars >>

\* train_epoch after its sleep: the sample is generated and appended, and
\* push_metrics_to_prometheus is entered; or the generator raises and
\* run_training returns from its except clause.
TrainEpochGenerate ==
    /\ pc = "training"
    /\ \/ \E d \in RandomDraws :
            LET m == GenerateTrainingMetrics(epoch, d)
            IN  /\ metrics' = AppendSample(metrics, m)
                /\ current' = m
                /\ attempt' = 0
                /\ events' = << >>
                /\ UNCHANGED gateway
                /\ pc' = "push"
                /\ emitted' = << >>
                /\ UNCHANGED results
       \/ /\ results' = FailedResults(GeneratorError)
          /\ pc' = "returned"
          /\ emitted' = << [level |-> "error", kind |-> "training_failed",
                            attempt |-> 0] >>
          /\ TrainEpochFault
    /\ UNCHANGED << callVars, model_name, epochs, registryVars, healthVars,
                    epoch, saved,
                    exit_code, server, shutdown_request >>

\* One iteration of the retry loop: the gauges are set, push_to_gateway is
\* called and returns or raises outcome.  The timeout read with get_env_int
\* only bounds the duration of the call.
PushAttempt(outcome) ==
    /\ pc = "push"
    /\ accuracy_gauge' = current.accuracy
    /\ loss_gauge' = current.loss
    /\ epoch_counter' = epoch_counter + 1
    /\ cpu_gauge' = current.cpu_usage_percent
    /\ memory_gauge' = current.memory_usage_percent
    /\ gateway' = [calls  |-> gateway.calls + 1,
                   failed |-> gateway.failed + IF outcome = "ok" THEN 0 ELSE 1]
    /\ IF outcome = "ok"
       THEN /\ events' = Append(events, Call(outcome))
            /\ pc' = "pushed"
            /\ emitted' = << >>
            /\ UNCHANGED << metrics_failure_counter, results >>
       ELSE IF Caught(outcome)
       THEN /\ metrics_failure_counter' = IncFailure(metrics_failure_counter)
            /\ UNCHANGED results
            /\ events' = IF HasNextAttempt(attempt)
                         THEN events \o << Call(outcome),
                                           Sleep(Delay(attempt)) >>
                         ELSE Append(events, Call(outcome))
            /\ emitted' = << FailureRecord(outcome, attempt) >>
                  \o (IF HasNextAttempt(attempt)
                      THEN << RetryRecord(attempt) >> ELSE << >>)
                  \o (IF RetryLoopContinues(attempt)
                      THEN << >> ELSE << TerminalRecord >>)
            /\ pc' = IF RetryLoopContinues(attempt) THEN "backoff"
                     ELSE "pushed"
       ELSE /\ events' = Append(events, Call(outcome))
            /\ results' = FailedResults(outcome)
            /\ pc' = "returned"
            /\ emitted' = << [level |-> "error", kind |-> "training_failed",
                              attempt |-> 0] >>
            /\ UNCHANGED metrics_failure_counter
    /\ UNCHANGED << callVars, trainerVars, healthVars, epoch, current, attempt, saved,
                    exit_code, server, shutdown_request >>

\* The backoff sleep ends and the retry loop takes its next iteration.
PushRetry ==
    /\ pc = "backoff"
    /\ attempt' = attempt + 1
    /\ pc' = "push"
    /\ emitted' = << >>
    /\ UNCHANGED << callVars, trainerVars, registryVars, healthVars, epoch, current,
                    events, gateway, results, saved, exit_code, server, shutdown_request >>

\* train_epoch after the push returned, and the validation of run_training.
TrainEpochEnd ==
    /\ pc = "pushed"
    /\ IF epoch % 3 = 0
       THEN \E f \in ValidationFactors :
              emitted' = << [level |-> "info", kind |-> "epoch_completed",
                             attempt |-> 0],
                            [level |-> "info", kind |-> "validation",
                             attempt |-> 0,
                             val_accuracy |-> current.accuracy * f] >>
       ELSE emitted' = << [level |-> "info", kind |-> "epoch_completed",
                           attempt |-> 0] >>
    /\ pc' = "loop"
    /\ UNCHANGED << callVars, trainerVars, registryVars, pushVars, healthVars, epoch,
                    results, saved, exit_code, server, shutdown_request >>

\* Mutant: only the last sample is written.
SaveMetrics_LastOnly(ms) ==
    [written |-> TRUE, data |-> << ms[Len(ms)] >>]

\* The file after json.dump(self.metrics, f): a JSON array with one object
\* per sample, in list order.
SaveMetrics(ms) ==
    [written |-> TRUE, data |-> [i \in 1..Len(ms) |-> ms[i]]]

\* Mutant: a run without samples is reported as completed.
EmptyRunResults_Completed ==
    [ model_name     |-> model_name,
      final_accuracy |-> 0,
      total_epochs   |-> epochs,
      status         |-> "completed",
      best_accuracy  |-> 0,
      final_loss     |-> 0 ]

\* What run_training returns when the list is empty after the loop:
\* self.metrics[-1] raises IndexError and the except clause returns.
EmptyRunResults == FailedResults(IndexError)

\* run_training after the loop: the summary is computed and save_metrics
\* writes the samples (or logs its failure); on an empty list metrics[-1]
\* raises and the except clause returns the failed summary.
RunTrainingFinish ==
    /\ pc = "loop"
    /\ ~LoopContinues(epoch)
    /\ IF metrics = << >>
       THEN /\ results' = EmptyRunResults
            /\ emitted' = << [level |-> "error", kind |-> "training_failed",
                              attempt |-> 0] >>
            /\ UNCHANGED saved
       ELSE /\ results' = CompletedResults
            /\ \E written \in BOOLEAN :
                 IF written
                 THEN /\ saved' = SaveMetrics(metrics)
                      /\ emitted' = << [level |-> "info",
                                        kind |-> "metrics_saved",
                                        attempt |-> 0] >>
                 ELSE /\ UNCHANGED saved
                      /\ emitted' = << [level |-> "error",
                                        kind |-> "save_failed",
                                        attempt |-> 0] >>
    /\ pc' = "returned"
    /\ UNCHANGED << callVars, trainerVars, registryVars, pushVars, healthVars, epoch,
                    exit_code, server, shutdown_request >>

\* Mutant: main returns 0 whatever the summary says.
ExitCode_AlwaysZero(r) == IF r.status = "completed" THEN 0 ELSE 0

\* The value main returns after run_training returned results r.
ExitCode(r) == IF r.status = "completed" THEN 0 ELSE 1

\* The value main returns from "except ValueError" and "except Exception".
ExitConfigError == 1
ExitUnexpected == 1

\* The value main returns from "except KeyboardInterrupt".
ExitInterrupted == 130

\* main after run_training returned: the results are printed and the exit
\* code is computed; the finally clause follows.
MainReturn ==
    /\ pc = "returned"
    /\ exit_code' = ExitCode(results)
    /\ emitted' = << >>
    /\ pc' = "finally"
    /\ UNCHANGED << callVars, trainerVars, registryVars, pushVars, healthVars,
                    epoch, results, saved, server, shutdown_request >>

\* Mutant: a bare "except:" in run_training.
RunTrainingCatches_Bare(exc) == TRUE

\* "except Exception" of run_training: KeyboardInterrupt is a
\* BaseException, not an Exception.
RunTrainingCatches(exc) == exc # KeyboardInterrupt

\* A KeyboardInterrupt reaches the main thread in the time.sleep of
\* train_epoch or in a backoff sleep: no "except Exception" clause catches
\* it, main's "except KeyboardInterrupt" returns 130.
Interrupt ==
    /\ pc \in {"training", "backoff"}
    /\ interrupted' = TRUE
    /\ IF RunTrainingCatches(KeyboardInterrupt)
       THEN /\ results' = FailedResults(KeyboardInterrupt)
            /\ emitted' = << [level |-> "error", kind |-> "training_failed",
                              attempt |-> 0] >>
            /\ pc' = "returned"
            /\ UNCHANGED exit_code
       ELSE /\ exit_code' = ExitInterrupted
            /\ emitted' = << [level |-> "info", kind |-> "interrupted",
                              attempt |-> 0] >>
            /\ pc' = "finally"
            /\ UNCHANGED results
    /\ UNCHANGED << runs, shutdowns, env_int, validated, trainerVars, registryVars,
                    pushVars, healthVars, epoch, saved, server, shutdown_request >>

\* serve_forever, run by the server thread, takes a request only while the
\* shutdown flag is not set.
ServeForeverAccepts(flag) == ~flag

\* Mutant: shutdown() does not wait for the request being handled.
ServeForeverExited_NoWait(req) == TRUE

\* serve_forever has left its loop, which shutdown() waits for: the flag is
\* set and no request is being handled.
ServeForeverExited(req) == req = "none"

\* The finally clause of main calls health_server.stop() on a server being
\* served: server.shutdown() sets the shutdown flag and waits.
MainStop ==
    /\ pc = "finally"
    /\ server = "serving"
    /\ ~shutdown_request
    /\ shutdown_request' = TRUE
    /\ emitted' = << >>
    /\ UNCHANGED << callVars, trainerVars, registryVars, pushVars, healthVars,
                    pc, epoch, results, saved, exit_code, server >>

\* The finally clause of main: health_server.stop() returns, after the
\* request being handled on a server being served, then main returns.
MainFinally ==
    /\ pc = "finally"
    /\ IF StopBlocks(server)
       THEN /\ pc' = "blocked"
            /\ emitted' = << >>
            /\ UNCHANGED server
            /\ UNCHANGED shutdowns
            /\ UNCHANGED shutdown_request
       ELSE /\ server = "serving" =>
                  (shutdown_request /\ ServeForeverExited(request))
            /\ shutdown_request' = FALSE
            /\ server' = StopServer(server)
            /\ shutdowns' = IF StopActs(server) THEN shutdowns + 1
                            ELSE shutdowns
            /\ emitted' = StopRecords(server)
            /\ pc' = "exited"
    /\ UNCHANGED << runs, interrupted, env_int, validated, trainerVars, registryVars,
                    pushVars, healthVars, epoch, results, saved, exit_code >>

\* A caller of the classes calls run_training again on a trainer whose
\* run_training has returned.
RunTrainingAgain ==
    /\ pc = "returned"
    /\ runs < MaxRuns
    /\ runs' = runs + 1
    /\ epoch' = 0
    /\ pc' = "loop"
    /\ emitted' = << >>
    /\ UNCHANGED << shutdowns, interrupted, env_int, validated, trainerVars, registryVars, pushVars, healthVars,
                    results, saved, exit_code, server, shutdown_request >>

\* A caller of the classes calls HealthCheckServer.stop(): before start(),
\* after start(), after run_training or after main has stopped the server.
HealthStop ==
    /\ pc \in {"start", "run", "returned", "exited"}
    /\ shutdowns < MaxStops
    /\ IF StopBlocks(server)
       THEN /\ pc' = "blocked"
            /\ emitted' = << >>
            /\ UNCHANGED << server, shutdown_request, shutdowns >>
       ELSE /\ server = "serving" => ServeForeverExited(request)
            /\ server' = StopServer(server)
            /\ shutdowns' = IF StopActs(server) THEN shutdowns + 1
                            ELSE shutdowns
            /\ emitted' = StopRecords(server)
            /\ UNCHANGED << pc, shutdown_request >>
    /\ UNCHANGED << runs, interrupted, env_int, validated, trainerVars, registryVars,
                    pushVars, healthVars, epoch, results, saved, exit_code >>

\* The server thread accepts a request for path p.
HandleRequest(p) ==
    /\ server = "serving"
    /\ ServeForeverAccepts(shutdown_request)
    /\ request = "none"
    /\ request' = p
    /\ UNCHANGED << callVars, trainerVars, registryVars, pushVars, pc, epoch, emitted,
                    results, saved, exit_code, server, shutdown_request, response, observed >>

\* Mutant: the handler empties the list it reports on.
DoGetTrainer_Clears ==
    /\ metrics' = << >>
    /\ UNCHANGED << model_name, epochs >>

\* What do_GET does to the trainer: it reads model_name, metrics and
\* epochs and assigns none of them.
DoGetTrainer == UNCHANGED trainerVars

\* HealthCheckHandler.do_GET answers the request being handled.
DoGet ==
    /\ request # "none"
    /\ DoGetTrainer
    /\ response' = DoGetResponse(request)
    /\ observed' = IF response'.code = 200
                   THEN response'.body.epochs_completed
                   ELSE observed
    /\ request' = "none"
    /\ UNCHANGED << callVars, registryVars, pushVars, pc, epoch, emitted,
                    results, saved, exit_code, server, shutdown_request >>

Next ==
    \/ HealthStart
    \/ RunTraining
    \/ TrainEpochBegin
    \/ TrainEpochGenerate
    \/ \E outcome \in Outcomes : PushAttempt(outcome)
    \/ PushRetry
    \/ TrainEpochEnd
    \/ RunTrainingFinish
    \/ MainReturn
    \/ Interrupt
    \/ MainStop
    \/ MainFinally
    \/ \E p \in Paths : HandleRequest(p)
    \/ DoGet

Spec == Init /\ [][Next]_vars

\* The values of MODEL_NAME in the environment of main.
NameEnv ==
    { Unset,
      SetTo(<< >>),
      SetTo(<< "a", "b" >>),
      SetTo(<< "m", "-", "1", "\n" >>),
      SetTo(<< "b", "a", "d", " ", "n", "a", "m", "e" >>),
      SetTo([i \in 1..51 |-> "x"]) }

\* The values of TRAINING_EPOCHS in the environment of main (always set:
\* the default of 10 epochs is beyond the runs explored).
EpochsEnv ==
    { SetTo(<< "1" >>),
      SetTo(<< " ", "2" >>),
      SetTo(<< "0" >>),
      SetTo(<< "-", "1" >>),
      SetTo(<< "1", "0", "0", "1" >>),
      SetTo(<< "a", "b", "c" >>),
      SetTo(<< >>) }

\* main up to health_server.start(): the configuration is read from the
\* environment and validated and the trainer and the health check server
\* are constructed; a ValueError of the validation or an exception of the
\* construction makes main return 1.  The health check port read with
\* get_env_int only selects the port start() binds.
MainConfigFrom(name_envs, epochs_envs) ==
    /\ pc = "main"
    /\ \E name_env \in name_envs, epochs_env \in epochs_envs,
          constructed \in BOOLEAN :
         LET name == ValidateModelName(Getenv(name_env, ModelName))
             n    == ValidateTrainingEpochs(Getenv(epochs_env, Str(10)))
         IN  IF ~name.ok \/ ~n.ok
             THEN /\ exit_code' = ExitConfigError
                  /\ emitted' = << [level |-> "error",
                                    kind |-> "configuration_error",
                                    attempt |-> 0] >>
                  /\ pc' = "finally"
                  /\ UNCHANGED << model_name, epochs >>
             ELSE IF ~constructed
             THEN /\ exit_code' = ExitUnexpected
                  /\ emitted' = << [level |-> "error",
                                    kind |-> "unexpected_error",
                                    attempt |-> 0] >>
                  /\ pc' = "finally"
                  /\ UNCHANGED << model_name, epochs >>
             ELSE /\ model_name' = name.value
                  /\ epochs' = n.value
                  /\ emitted' = << [level |-> "info",
                                    kind |-> "validated_configuration",
                                    attempt |-> 0] >>
                  /\ pc' = "start"
                  /\ UNCHANGED exit_code
    /\ UNCHANGED << callVars, metrics, registryVars, pushVars, healthVars,
                    epoch, results, saved, server, shutdown_request >>

MainConfig == MainConfigFrom(NameEnv, EpochsEnv)

\* The program started through main.
InitMain ==
    /\ model_name = << >>
    /\ epochs = 0
    /\ pc = "main"
    /\ InitRest

NextMain ==
    \/ MainConfig
    \/ Next

SpecMain == InitMain /\ [][NextMain]_vars

\* Strings of n characters "x".
Xs(n) == [i \in 1..n |-> "x"]

\* The arguments validate_model_name is called with.
NameInputs ==
    { << >>,
      << "a", "b" >>,
      << "a", "b", "c" >>,
      << "A", "_", "b", "-", "9" >>,
      << "a", " ", "b", "c" >>,
      << "a", ".", "b", "c" >>,
      << "a", "b", "c", "\n" >>,
      << "a", "b", "\n" >>,
      << "\n", "a", "b", "c" >>,
      << "a", "b", "c", "\n", "\n" >>,
      Xs(49), Xs(50), Xs(51),
      Append(Xs(49), "\n"),
      Append(Xs(50), "\n") }

\* The arguments validate_training_epochs is called with.
EpochsInputs ==
    { << >>,
      << "a", "b", "c" >>,
      << "0" >>,
      << "1" >>,
      << "0", "0", "7" >>,
      << "1", "0", "0", "0" >>,
      << "1", "0", "0", "1" >>,
      << "-", "1" >>,
      << "+", "5" >>,
      << " ", "7", " " >>,
      << "1", "_", "0" >>,
      << "1", "_", "_", "0" >>,
      << "1", ".", "5" >>,
      << "1", "e", "2" >>,
      << "9", "9", "9", "9", "9" >> }

\* The values of TRAINING_EPOCHS main is started with when only its
\* configuration step is explored.
EpochsInputsEnv == { SetTo(v) : v \in EpochsInputs }

\* One call of validate_model_name.
CallValidateModelName(name) ==
    /\ validated' = [ called |-> TRUE,
                      fn     |-> "validate_model_name",
                      arg    |-> name,
                      ok     |-> ValidateModelName(name).ok,
                      value  |-> ValidateModelName(name).value ]
    /\ UNCHANGED << runs, shutdowns, interrupted, env_int, trainerVars,
                    registryVars, pushVars, healthVars, pc, epoch, emitted,
                    results, saved, exit_code, server, shutdown_request >>

\* One call of validate_training_epochs.
CallValidateTrainingEpochs(epochs_str) ==
    /\ validated' = [ called |-> TRUE,
                      fn     |-> "validate_training_epochs",
                      arg    |-> epochs_str,
                      ok     |-> ValidateTrainingEpochs(epochs_str).ok,
                      value  |-> ValidateTrainingEpochs(epochs_str).value ]
    /\ UNCHANGED << runs, shutdowns, interrupted, env_int, trainerVars,
                    registryVars, pushVars, healthVars, pc, epoch, emitted,
                    results, saved, exit_code, server, shutdown_request >>

\* The validation functions on their own, and main up to the construction
\* of the trainer on every TRAINING_EPOCHS value of EpochsInputs.
NextValidate ==
    \/ \E name \in NameInputs : CallValidateModelName(name)
    \/ \E epochs_str \in EpochsInputs : CallValidateTrainingEpochs(epochs_str)
    \/ MainConfigFrom(NameEnv, EpochsInputsEnv)

SpecValidate == InitMain /\ [][NextValidate]_vars

\* The values of an integer environment variable.
IntEnv ==
    { Unset,
      SetTo(<< >>),
      SetTo(<< "5" >>),
      SetTo(<< "0" >>),
      SetTo(<< "6", "1" >>),
      SetTo(<< "-", "3" >>),
      SetTo(<< " ", "7", "\n" >>),
      SetTo(<< "2", "_", "0", "0", "0" >>),
      SetTo(<< "9", "9", "9", "9", "9" >>),
      SetTo(<< "1", "0", ".", "5" >>),
      SetTo(<< "a", "b", "c" >>) }

\* The defaults and the ranges get_env_int is called with: those of the
\* push timeout and of the health check port, and others.
EnvDefaults == {0 - 5, 10, 100, 8080}
EnvRanges == { << 1, 60 >>, << 1024, 65535 >>, << 5, 5 >>, << 0 - 10, 10 >> }

\* One call of get_env_int.
CallGetEnvInt(var, default, min_val, max_val) ==
    /\ env_int' = [ called   |-> TRUE,
                    var      |-> var,
                    default  |-> default,
                    min_val  |-> min_val,
                    max_val  |-> max_val,
                    result   |-> GetEnvInt(var, default, min_val, max_val),
                    warnings |-> GetEnvIntWarnings(var, default, min_val,
                                                   max_val) ]
    /\ UNCHANGED << runs, shutdowns, interrupted, validated, trainerVars,
                    registryVars, pushVars, healthVars, pc, epoch, emitted,
                    results, saved, exit_code, server, shutdown_request >>

\* get_env_int on its own, on every value of the variable.
NextEnvInt ==
    \E var \in IntEnv, default \in EnvDefaults, range \in EnvRanges :
        CallGetEnvInt(var, default, range[1], range[2])

SpecEnvInt == Init /\ [][NextEnvInt]_vars

\* The values the random source can yield for one sample: the ends and the
\* middle of the range of each noise term and of each utilisation.
NoiseDraws ==
    [ acc  : {0 - 500, 0, 500},
      loss : {0 - 1000, 0, 1000},
      cpu  : {6000, 9000},
      mem  : {7000, 8500},
      gpu  : {0, 8000, 9500} ]

\* A trainer constructed for 1..MaxGenEpochs epochs.
InitGen ==
    /\ model_name \in {ModelName, << "m", "-", "1" >>}
    /\ epochs \in 1..MaxGenEpochs
    /\ pc = "start"
    /\ InitRest

\* One call of generate_training_metrics(e), as test_generate_training_metrics
\* makes it: the sample is returned, the list is left alone.
GenerateSample(e, d) ==
    /\ epoch' = e
    /\ current' = GenerateTrainingMetrics(e, d)
    /\ UNCHANGED << callVars, trainerVars, registryVars, healthVars, attempt,
                    events, gateway, pc, emitted, results, saved, exit_code,
                    server, shutdown_request >>

\* The sample generator on its own, on every epoch of the run.
NextGen ==
    \E e \in 1..epochs, d \in NoiseDraws : GenerateSample(e, d)

SpecGen == InitGen /\ [][NextGen]_vars

\* train_epoch with the push client patched out, as test_train_epoch calls
\* it, for the epochs of a run in order: the sample is generated and
\* appended.
TrainEpochPatched(d) ==
    /\ LoopContinues(epoch)
    /\ epoch' = epoch + 1
    /\ current' = GenerateTrainingMetrics(epoch + 1, d)
    /\ metrics' = AppendSample(metrics, current')
    /\ UNCHANGED << callVars, model_name, epochs, registryVars, healthVars,
                    attempt, events, gateway, pc, emitted, results, saved,
                    exit_code, server, shutdown_request >>

\* The samples of a run, whatever the gateway does.
NextLoop ==
    \E d \in RandomDraws : TrainEpochPatched(d)

SpecLoop == InitGen /\ [][NextLoop]_vars

\* The classes used directly, as the tests use them: run_training may be
\* called again and stop() may be called at any time.
InitApi == Init /\ epochs <= MaxApiEpochs

NextApi ==
    \/ Next
    \/ RunTrainingAgain
    \/ HealthStop

SpecApi == InitApi /\ [][NextApi]_vars

\* The program with its two threads running on: the main thread carries
\* stop() through and the server thread answers the request it has read.
SpecStop ==
    /\ InitApi
    /\ [][Next]_vars
    /\ WF_vars(MainStop)
    /\ WF_vars(MainFinally)
    /\ WF_vars(DoGet)

\* The program whose main thread runs on: every sleep ends, every gateway
\* attempt returns or raises, every step of run_training is taken.
InitLive == Init /\ epochs <= MaxLiveEpochs

SpecLive ==
    /\ InitLive
    /\ [][Next]_vars
    /\ WF_vars(RunTraining)
    /\ WF_vars(TrainEpochBegin)
    /\ WF_vars(TrainEpochGenerate)
    /\ WF_vars(\E outcome \in Outcomes : PushAttempt(outcome))
    /\ WF_vars(PushRetry)
    /\ WF_vars(TrainEpochEnd)
    /\ WF_vars(RunTrainingFinish)

\* What is left of a response whose handler raised.
BrokenResponse(p) == [code |-> 0, path |-> p]

\* do_GET raises in the server thread (the client has gone and the write
\* to the socket fails): the server's handle_error reports it and drops the
\* request; serve_forever goes on.
DoGetRaises ==
    /\ request # "none"
    /\ response' = BrokenResponse(request)
    /\ request' = "none"
    /\ UNCHANGED << callVars, trainerVars, registryVars, pushVars, pc, epoch,
                    emitted, results, saved, exit_code, server,
                    shutdown_request, observed >>

\* The program with handlers that may fail.
NextHealth ==
    \/ Next
    \/ DoGetRaises

SpecHealth == InitLive /\ [][NextHealth]_vars

\* The next step of the main thread from the call of run_training to its
\* return.
MainStep ==
    \/ RunTraining
    \/ TrainEpochBegin
    \/ TrainEpochGenerate
    \/ \E outcome \in Outcomes : PushAttempt(outcome)
    \/ PushRetry
    \/ TrainEpochEnd
    \/ RunTrainingFinish

\* ================================================================ claims
\* The push_to_gateway calls and the backoff sleeps of the current push.
IsCall(e) == e.type = "call"
IsSleep(e) == e.type = "sleep"
Calls == SelectSeq(events, IsCall)
Sleeps == SelectSeq(events, IsSleep)

Terminated == pc \in {"returned", "finally", "exited", "blocked"}

\* run_training has returned a summary.
Returned == results.status # "none"

\* C1: push_metrics_to_prometheus never raises: whatever push_to_gateway
\* does in an attempt (returns, Timeout, ConnectionError, RequestException,
\* any other Exception), the push client goes on to a backoff sleep or
\* returns to train_epoch; it never leaves through an exception.
C1_PushNeverRaises ==
    [][pc = "push" => pc' \in {"push", "backoff", "pushed"}]_vars

\* A push returned to train_epoch after three failed attempts, the last one
\* an unexpected exception.
C1_Witness ==
    /\ pc = "pushed"
    /\ Len(Calls) = 3
    /\ \A i \in 1..3 : ~Calls[i].ok
    /\ emitted[1].kind = "Exception"

\* C2: one push makes at most 3 gateway attempts and stops at the first
\* success: no attempt follows a successful one, and when the push has
\* returned it ended with a success or made exactly 3 attempts.
C2_AtMostThreeAttempts ==
    /\ Len(Calls) <= 3
    /\ \A i \in 1..Len(Calls) : Calls[i].ok => i = Len(Calls)
    /\ pc \in {"push", "backoff"} =>
          /\ Len(Calls) < 3
          /\ \A i \in 1..Len(Calls) : ~Calls[i].ok
    /\ pc = "pushed" => (Calls[Len(Calls)].ok \/ Len(Calls) = 3)

\* A push returned after a failed and then a successful attempt.
C2_Witness ==
    /\ pc = "pushed"
    /\ Len(Calls) = 2
    /\ ~Calls[1].ok
    /\ Calls[2].ok

\* C3: when the first 2 attempts of a push fail and the 3rd succeeds, the
\* push made exactly 3 attempts and 2 sleeps, of 1 s then 2 s, each between
\* two attempts, and it has returned.
C3_TwoSleepsOneThenTwo ==
    (/\ Len(Calls) >= 3
     /\ ~Calls[1].ok
     /\ ~Calls[2].ok
     /\ Calls[3].ok)
    => /\ events = << [type |-> "call", ok |-> FALSE, delay |-> 0],
                      [type |-> "sleep", ok |-> FALSE, delay |-> 1],
                      [type |-> "call", ok |-> FALSE, delay |-> 0],
                      [type |-> "sleep", ok |-> FALSE, delay |-> 2],
                      [type |-> "call", ok |-> TRUE, delay |-> 0] >>
       /\ pc \notin {"push", "backoff"}

\* A push returned after fail, fail, success.
C3_Witness ==
    /\ pc = "pushed"
    /\ Len(Calls) = 3
    /\ ~Calls[2].ok
    /\ Calls[3].ok
    /\ Len(Sleeps) = 2

\* C4: the failure counter counts the failed push attempts: it always
\* equals the number of push_to_gateway calls that raised so far, and the
\* first push leaves it at 3 when its 3 attempts all failed.
C4_FailureCounterCountsFailures ==
    /\ metrics_failure_counter = gateway.failed
    /\ (/\ epoch = 1
        /\ pc = "pushed"
        /\ Len(Calls) = 3
        /\ ~Calls[3].ok) => metrics_failure_counter = 3

\* The second push returned with a success after one failure, the first
\* push having failed 3 times.
C4_Witness ==
    /\ pc = "pushed"
    /\ epoch = 2
    /\ Len(Calls) = 2
    /\ Calls[2].ok
    /\ metrics_failure_counter = 4

\* C5: gateway failures never abort the run: a run only fails with an error
\* raised outside the push client, and a run of T >= 1 epochs in which all
\* 3 attempts of every epoch failed ends completed with T samples.
C5_PushFailuresNeverAbort ==
    /\ results.status = "failed" =>
          results.error \in {GeneratorError, IndexError}
    /\ (/\ Terminated
        /\ epochs >= 1
        /\ gateway.failed = 3 * epochs)
       => /\ results.status = "completed"
          /\ Len(metrics) = epochs

\* A run of 2 or more epochs ended completed with every attempt failed.
C5_Witness ==
    /\ pc = "exited"
    /\ epochs >= 2
    /\ gateway.calls = 3 * epochs
    /\ gateway.failed = 3 * epochs
    /\ results.status = "completed"

\* C6: the number of samples never exceeds the configured epochs, equals k
\* once the step of epoch k is done, and the list only grows by appends.
C6_SamplesBoundedAppendOnly ==
    /\ [](/\ Len(metrics) <= epochs
          /\ pc \in {"pushed", "loop"} => Len(metrics) = epoch)
    /\ [][\/ metrics' = metrics
          \/ /\ Len(metrics') = Len(metrics) + 1
             /\ SubSeq(metrics', 1, Len(metrics)) = metrics]_vars

\* The step of epoch 3 is done and the list holds 3 samples.
C6_Witness ==
    /\ pc = "loop"
    /\ epoch = 3
    /\ Len(metrics) = 3

\* C7: the epochs_completed values successive /health answers report never
\* decrease, and every sample a reader can count is fully constructed.
C7_ReadersSeeMonotonicLength ==
    /\ [](/\ \A i \in 1..Len(metrics) : DOMAIN metrics[i] = SampleFields
          /\ observed <= Len(metrics))
    /\ [][observed' >= observed]_vars

\* A /health request is being handled during a backoff sleep of epoch 2,
\* after an earlier request observed 1.
C7_Witness ==
    /\ pc = "backoff"
    /\ epoch = 2
    /\ observed = 1
    /\ request = "/health"

\* C8: a GET on /health is answered 200 with status healthy, the model name,
\* epochs_completed = the number of samples at that moment and total_epochs
\* = the configured epochs; a GET on any other path is answered 404 with an
\* empty body.
C8_HealthAnswer ==
    [][(request # "none" /\ request' = "none") =>
         IF request = "/health"
         THEN /\ response'.code = 200
              /\ response'.body.status = "healthy"
              /\ response'.body.model_name = model_name
              /\ response'.body.epochs_completed = Len(metrics)
              /\ response'.body.total_epochs = epochs
         ELSE /\ response'.code = 404
              /\ response'.body = NoResults]_vars

\* /health answered 2 of 4 epochs while epoch 3 was in progress.
C8_Witness ==
    /\ response.code = 200
    /\ response.body.epochs_completed = 2
    /\ response.body.total_epochs = 4
    /\ pc = "training"
    /\ epoch = 3
    /\ request = "none"

\* C9: a run of T >= 1 epochs that went through all its epochs returns a
\* completed summary with total_epochs = T, final_accuracy and final_loss
\* of the last sample and best_accuracy the maximum accuracy of the T
\* samples.
C9_CompletedSummary ==
    /\ (Returned /\ epochs >= 1 /\ Len(metrics) = epochs)
          => results.status = "completed"
    /\ results.status = "completed" =>
          /\ epochs >= 1
          /\ Len(metrics) = epochs
          /\ results.total_epochs = epochs
          /\ results.final_accuracy = metrics[epochs].accuracy
          /\ results.final_loss = metrics[epochs].loss
          /\ \E i \in 1..epochs : results.best_accuracy = metrics[i].accuracy
          /\ \A i \in 1..epochs : results.best_accuracy >= metrics[i].accuracy
          /\ results.best_accuracy >= results.final_accuracy

\* A completed run whose best accuracy is above its final accuracy.
C9_Witness ==
    /\ results.status = "completed"
    /\ results.best_accuracy > results.final_accuracy

\* C10: when the generator raises in epoch k, the run returns a failed
\* summary with the error's description and epochs_completed = k - 1, and
\* nothing more is trained or pushed.
C10_FailedSummary ==
    /\ []((results.status = "failed" /\ results.error = GeneratorError) =>
            /\ Terminated
            /\ results.epochs_completed = epoch - 1
            /\ Len(metrics) = epoch - 1)
    /\ [][results.status = "failed" =>
            /\ results' = results
            /\ metrics' = metrics
            /\ epoch' = epoch
            /\ gateway' = gateway]_vars

\* The generator raised in epoch 2 of 4.
C10_Witness ==
    /\ results.status = "failed"
    /\ results.error = GeneratorError
    /\ epochs = 4
    /\ epoch = 2
    /\ results.epochs_completed = 1

\* C11: terminal states are final: once run_training has returned its
\* summary (completed or failed), no later operation on the trainer,
\* calling run_training again included, changes the summary or appends
\* samples.
C11_TerminalStatesFinal ==
    [][Returned => (results' = results /\ metrics' = metrics)]_vars

\* C12: main never returns with the health check server still serving; the
\* server starts serving only in start(), before run_training and the first
\* epoch, and stops serving only in main's finally clause, when the exit
\* code is decided.
C12_EndpointStoppedOnEveryPath ==
    /\ [](pc = "exited" => server \in {"none", "closed"})
    /\ [][(server # "serving" /\ server' = "serving") =>
            (pc = "start" /\ runs = 0 /\ metrics = << >>)]_vars
    /\ [][(server = "serving" /\ server' # "serving") =>
            (pc = "finally" /\ exit_code # NoExit /\ pc' = "exited")]_vars

\* main returned after an interrupt, the started server is shut down.
C12_Witness ==
    /\ pc = "exited"
    /\ interrupted
    /\ server = "closed"
    /\ shutdowns = 1

\* C13: a failure of start() is not propagated and the later stop() is a
\* harmless no-op: start() returns to main whatever it met, and when the
\* server is not serving the stop() of main's finally clause returns at
\* once, changes nothing and logs nothing.
C13_StartFailureHarmless ==
    /\ [][pc = "start" => pc' \in {"start", "run"}]_vars
    /\ [][(pc = "finally" /\ server # "serving") =>
            /\ pc' \in {"finally", "exited"}
            /\ server' = server
            /\ shutdowns' = shutdowns
            /\ pc' = "exited" => emitted' = << >>]_vars

\* C14: stop() is idempotent: however often it is called, before or after
\* start(), the shutdown (server.shutdown(), server_close(), the "stopped"
\* record) is carried out at most once.
C14_StopIdempotent == shutdowns <= 1

\* C15: after a KeyboardInterrupt in a sleep of the run no summary is
\* returned, the exit code is the interrupted one, nothing is persisted,
\* the server is not serving once main has returned, and no further
\* attempt, sample or epoch follows.
C15_InterruptedRun ==
    /\ [](interrupted =>
            /\ results.status # "completed"
            /\ results = NoResults
            /\ exit_code = 130
            /\ saved = NoSnapshot
            /\ pc \in {"finally", "exited", "blocked"}
            /\ pc = "exited" => server # "serving")
    /\ [][interrupted =>
            /\ metrics' = metrics
            /\ gateway' = gateway
            /\ events' = events
            /\ epoch' = epoch]_vars

\* main returned after an interrupt in the first backoff sleep of epoch 2.
C15_Witness ==
    /\ interrupted
    /\ pc = "exited"
    /\ Len(metrics) = 2
    /\ epochs >= 3
    /\ Len(Calls) = 1
    /\ Len(Sleeps) = 1
    /\ server = "closed"

\* C16: when main has returned, its exit code is 0 exactly when
\* run_training returned a completed summary, 130 exactly when the process
\* was interrupted, and 1 otherwise: the run failed, the configuration was
\* invalid or another exception reached main.
C16_ExitCode ==
    pc = "exited" =>
       /\ exit_code \in {0, 1, 130}
       /\ exit_code = 0 <=> results.status = "completed"
       /\ exit_code = 130 <=> interrupted
       /\ results.status = "failed" => exit_code = 1
       /\ (runs = 0 /\ ~interrupted) => exit_code = 1

\* main returned 1 without a run: the configuration was rejected.
C16_Witness ==
    /\ pc = "exited"
    /\ runs = 0
    /\ exit_code = 1
    /\ emitted = << >>
    /\ server = "none"

C18_FailedAttemptKeepsGauges ==
    [][gateway'.failed > gateway.failed =>
         /\ accuracy_gauge' = accuracy_gauge
         /\ loss_gauge' = loss_gauge
         /\ cpu_gauge' = cpu_gauge
         /\ memory_gauge' = memory_gauge
         /\ epoch_counter' = epoch_counter]_vars

\* C19: what a failed attempt does to the retry loop depends only on its
\* position, not on the class of the failure: for each of the four classes
\* the failure counter goes up by one, and the attempt is followed by a
\* sleep of 1 s (first attempt) or 2 s (second) and another attempt, or
\* (third) by the return of the push.
C19_PolicyIgnoresFailureClass ==
    [][(pc = "push" /\ gateway'.failed = gateway.failed + 1) =>
         /\ emitted'[1].kind \in Failures
         /\ metrics_failure_counter' = metrics_failure_counter + 1
         /\ attempt' = attempt
         /\ IF attempt < 2
            THEN /\ pc' = "backoff"
                 /\ events' = events \o
                      << [type |-> "call", ok |-> FALSE, delay |-> 0],
                         [type |-> "sleep", ok |-> FALSE,
                          delay |-> IF attempt = 0 THEN 1 ELSE 2] >>
            ELSE /\ pc' = "pushed"
                 /\ events' = Append(events, [type |-> "call", ok |-> FALSE,
                                              delay |-> 0])]_vars

\* A push returned after 3 failed attempts, the last one a timeout.
C19_Witness ==
    /\ pc = "pushed"
    /\ Len(Calls) = 3
    /\ ~Calls[3].ok
    /\ emitted[1].kind = "Timeout"
    /\ emitted[1].attempt = 3

\* C20: get_env_int called with min_val <= max_val returns a value in
\* [min_val, max_val]: the integer the variable holds when that is in the
\* range, the nearer bound when it is outside, and the default brought into
\* the range when the variable is unset or int() rejects it.  With the
\* arguments of the push timeout the result is in 1..60, and 10 when the
\* variable is unset or not an integer.
C20_GetEnvIntInRange ==
    env_int.called =>
       LET lo     == env_int.min_val
           hi     == env_int.max_val
           parsed == ParseInt(env_int.var.value)
           isInt  == env_int.var.set /\ parsed.ok
           given  == IF isInt THEN parsed.value ELSE env_int.default
       IN  /\ lo <= env_int.result
           /\ env_int.result <= hi
           /\ (lo <= given /\ given <= hi) => env_int.result = given
           /\ given < lo => env_int.result = lo
           /\ given > hi => env_int.result = hi
           /\ (env_int.default = 10 /\ lo = 1 /\ hi = 60) =>
                 /\ env_int.result \in 1..60
                 /\ ~isInt => env_int.result = 10

\* get_env_int returned the upper bound for an unusable value and a default
\* above the range.
C20_Witness ==
    /\ env_int.called
    /\ env_int.var = SetTo(<< "a", "b", "c" >>)
    /\ env_int.default = 100
    /\ env_int.max_val = 60
    /\ env_int.result = 60

\* C21: a snapshot is written only by a run that completes and holds all
\* its samples in insertion order; when save_metrics fails the failure is
\* logged, nothing is written and the summary returned is still the
\* completed one; a failed run writes no snapshot.
C21_SnapshotOnCompletion ==
    /\ [](saved.written =>
            /\ results.status = "completed"
            /\ Len(saved.data) = Len(metrics)
            /\ \A i \in 1..Len(metrics) :
                  saved.data[i] = metrics[i] /\ saved.data[i].epoch = i)
    /\ [](results.status = "failed" => saved = NoSnapshot)
    /\ [][(pc = "loop" /\ pc' = "returned" /\ metrics # << >>) =>
            /\ results'.status = "completed"
            /\ \/ saved'.written /\ emitted'[1].kind = "metrics_saved"
               \/ saved' = saved /\ emitted'[1].kind = "save_failed"]_vars

\* A run of 3 epochs completed and its 3 samples are in the file.
C21_Witness ==
    /\ results.status = "completed"
    /\ epochs = 3
    /\ saved.written
    /\ Len(saved.data) = 3

\* C22: the epochs are processed in order 1, 2, ..., without overlap: the
\* sample of epoch k is the k-th of the list, it is generated only after
\* the push of epoch k - 1 has returned, that is after a successful attempt
\* or after all 3 attempts and both backoff sleeps, and every gateway call
\* pushes the sample generated last.
C22_UnitsInOrder ==
    /\ [](\A i \in 1..Len(metrics) : metrics[i].epoch = i)
    /\ [](pc \in {"push", "backoff", "pushed"} =>
            /\ epoch = Len(metrics)
            /\ current = metrics[Len(metrics)])
    /\ [][Len(metrics') # Len(metrics) =>
            /\ pc = "training"
            /\ Len(metrics') = Len(metrics) + 1
            /\ epoch = Len(metrics) + 1
            /\ events' = << >>
            /\ Len(metrics) > 0 =>
                  /\ Calls # << >>
                  /\ Calls[Len(Calls)].ok \/ (Len(Calls) = 3 /\ Len(Sleeps) = 2)
                  /\ events[Len(events)].type = "call"]_vars
    /\ [][gateway'.calls # gateway.calls =>
            /\ pc = "push"
            /\ current.epoch = Len(metrics)
            /\ metrics' = metrics]_vars

\* The sample of epoch 2 is generated after the 3 attempts of the push of
\* epoch 1 failed.
C22_Witness ==
    /\ pc = "push"
    /\ epoch = 2
    /\ Len(metrics) = 2
    /\ gateway = [calls |-> 3, failed |-> 3]
    /\ events = << >>

\* C23: the epoch counter counts completed epochs: when the push of epoch k
\* has returned its value is k, however many attempts the pushes needed.
C23_EpochCounterCountsUnits ==
    pc = "pushed" => epoch_counter = epoch

\* The six measurements of a sample.
Measurements == { "accuracy", "loss", "learning_rate", "cpu_usage_percent",
                  "memory_usage_percent", "gpu_usage_percent" }

\* C24: the registry a successful attempt delivers to the gateway holds,
\* for each of the six measurements of the sample, a gauge set to that
\* measurement, under the labels (model name, model version).
C24_PayloadCarriesSixGauges ==
    [][(gateway'.calls > gateway.calls /\ gateway'.failed = gateway.failed) =>
         /\ Labels' = [model_name |-> current.model_name,
                       model_version |-> ModelVersion]
         /\ \A f \in Measurements :
               \E g \in DOMAIN GaugeField :
                  GaugeField[g] = f /\ Registry'[g] = current[f]]_vars

\* C25: every summary run_training returns, completed or failed, carries
\* the configured number of epochs and the number of epochs completed, the
\* latter the number of samples of the run.
C25_SummaryCarriesBothTotals ==
    Returned =>
       /\ "total_epochs" \in DOMAIN results
       /\ "epochs_completed" \in DOMAIN results
       /\ results.total_epochs = epochs
       /\ results.epochs_completed = Len(metrics)

\* C26: stop() on a server being served is a graceful shutdown: once it is
\* called no new request is taken, the request being handled is answered
\* before the server is closed, a closed server serves nothing, and stop()
\* returns.
C26_GracefulStop ==
    /\ [][shutdown_request => request' \in {request, "none"}]_vars
    /\ [][(server = "serving" /\ server' # "serving") =>
            /\ request = "none"
            /\ server' = "closed"
            /\ emitted'[1].kind = "health_stopped"]_vars
    /\ [][(shutdown_request /\ request # "none" /\ request' = "none") =>
            /\ server' = "serving"
            /\ response' = DoGetResponse(request)]_vars
    /\ [](server = "closed" => request = "none")
    /\ [][server = "closed" =>
            (server' = "closed" /\ request' = request
                /\ response' = response)]_vars
    /\ (pc = "finally" /\ server = "serving")
          ~> (pc = "exited" /\ server = "closed")

\* stop() has been called while a /health request is being handled.
C26_Witness ==
    /\ pc = "finally"
    /\ server = "serving"
    /\ shutdown_request
    /\ request = "/health"

\* C27: for every epoch 1..T and every draw of the random source, the
\* sample generated has accuracy in [0, 0.95], loss >= 0.1, CPU, memory and
\* GPU utilisation in [0, 100], GPU utilisation 0 or in [80, 95], the epoch
\* it was asked for, batch_size 32 and the trainer's model name.
C27_SampleRanges ==
    current # NoSample =>
       /\ current.accuracy >= 0
       /\ current.accuracy <= 9500
       /\ current.loss >= 1000
       /\ current.cpu_usage_percent \in 0..10000
       /\ current.memory_usage_percent \in 0..10000
       /\ current.gpu_usage_percent \in 0..10000
       /\ current.gpu_usage_percent = 0
             \/ current.gpu_usage_percent \in 8000..9500
       /\ epoch \in 1..epochs
       /\ current.epoch = epoch
       /\ current.batch_size = 32
       /\ current.model_name = model_name

\* The last epoch with the largest accuracy noise: the accuracy is 0.95.
C27_Witness ==
    /\ current # NoSample
    /\ epochs = 7
    /\ current.epoch = 7
    /\ current.accuracy = 9500
    /\ current.loss = 2000
    /\ current.gpu_usage_percent = 0

\* C28 as stated: the learning rate of a run is non-increasing and every
\* step of it is exactly 3 consecutive epochs long: an epoch with a smaller
\* rate than the previous one follows 3 epochs with one and the same rate.
C28_StepsOfThree ==
    \A i \in 2..Len(metrics) :
       /\ metrics[i].learning_rate <= metrics[i - 1].learning_rate
       /\ metrics[i].learning_rate < metrics[i - 1].learning_rate =>
             /\ i >= 4
             /\ metrics[i - 2].learning_rate = metrics[i - 1].learning_rate
             /\ metrics[i - 3].learning_rate = metrics[i - 1].learning_rate

\* C28 as amended: the learning rate of a run starts at 0.001, is
\* non-increasing, is 0.9 times the previous epoch's rate at every epoch
\* divisible by 3 and equal to it at every other epoch: the first step is
\* the 2 epochs 1 and 2, every later step the 3 epochs 3k, 3k + 1, 3k + 2.
C28_StepsAtMultiplesOfThree ==
    /\ Len(metrics) >= 1 => metrics[1].learning_rate = 1000000
    /\ \A i \in 2..Len(metrics) :
          /\ metrics[i].learning_rate <= metrics[i - 1].learning_rate
          /\ i % 3 = 0 =>
                /\ metrics[i].learning_rate < metrics[i - 1].learning_rate
                /\ 10 * metrics[i].learning_rate
                      = 9 * metrics[i - 1].learning_rate
          /\ i % 3 # 0 =>
                metrics[i].learning_rate = metrics[i - 1].learning_rate

\* Six epochs of a run: the rate of epochs 1 and 2, the smaller rate of
\* epochs 3, 4 and 5 and the still smaller rate of epoch 6.
C28_Witness ==
    /\ Len(metrics) = 6
    /\ metrics[2].learning_rate = 1000000
    /\ metrics[3].learning_rate = 900000
    /\ metrics[5].learning_rate = 900000
    /\ metrics[6].learning_rate = 810000

\* C29: validate_model_name returns its argument unchanged if and only if
\* the argument is 3 to 50 characters long and each of its characters is in
\* [A-Za-z0-9_-]; it raises ValueError for every other string.
C29_ValidateModelName ==
    (validated.called /\ validated.fn = "validate_model_name") =>
       /\ validated.ok <=>
             /\ Len(validated.arg) >= 3
             /\ Len(validated.arg) <= 50
             /\ \A i \in 1..Len(validated.arg) : validated.arg[i] \in NameChars
       /\ validated.ok => validated.value = validated.arg

\* C30: validate_training_epochs returns n when int() accepts its argument
\* with value n and 1 <= n <= 1000, and raises ValueError for every other
\* argument; the trainer main constructs has 1 to 1000 epochs.
C30_ValidateTrainingEpochs ==
    /\ (validated.called /\ validated.fn = "validate_training_epochs") =>
          LET parsed == ParseInt(validated.arg)
          IN  /\ validated.ok <=>
                    (parsed.ok /\ parsed.value >= 1 /\ parsed.value <= 1000)
              /\ validated.ok => validated.value = parsed.value
              /\ validated.arg = << "1" >> =>
                    (validated.ok /\ validated.value = 1)
              /\ validated.arg = << "1", "0", "0", "0" >> =>
                    (validated.ok /\ validated.value = 1000)
              /\ validated.arg \in { << >>, << "a", "b", "c" >>, << "0" >>,
                                     << "-", "1" >>, << "1", ".", "5" >>,
                                     << "1", "0", "0", "1" >> }
                    => ~validated.ok
    /\ pc = "start" => (epochs >= 1 /\ epochs <= 1000)
    /\ pc = "main" => epochs = 0

\* validate_training_epochs returned 1000, the largest number it accepts.
C30_Witness ==
    /\ validated.called
    /\ validated.fn = "validate_training_epochs"
    /\ validated.arg = << "1", "0", "0", "0" >>
    /\ validated.ok
    /\ validated.value = 1000
    /\ pc = "start"
    /\ epochs = 1000

\* C31: when every sleep ends and every gateway attempt returns or raises,
\* a run of T epochs that is not interrupted returns a summary, completed
\* or failed, after at most T epochs and at most 3 * T gateway attempts.
C31_RunTerminates ==
    /\ pc = "run" ~> (Returned \/ interrupted)
    /\ [](Returned => results.status \in {"completed", "failed"})
    /\ [](epoch <= epochs)
    /\ [](Len(metrics) <= epochs)
    /\ [](gateway.calls <= 3 * epochs)

\* A run of 2 epochs completed after 6 gateway attempts.
C31_Witness ==
    /\ results.status = "completed"
    /\ epochs = 2
    /\ epoch = 2
    /\ gateway = [calls |-> 6, failed |-> 6]

\* The records of recs that classify a failed attempt, and the terminal
\* records among them.
IsClassified(r) == r.kind \in Failures
IsTerminal(r) == r.kind = "push_failed"
Classified(recs) == SelectSeq(recs, IsClassified)
Terminal(recs) == SelectSeq(recs, IsTerminal)

\* C32: every failed attempt writes exactly one record that names the
\* class of the failure and the number of the attempt (1, 2 or 3), a
\* successful attempt writes none, and the terminal "failed after 3
\* attempts" record is written in the step of the third failed attempt of
\* a push and in no other step.
C32_NoSilentPushFault ==
    [][IF gateway'.failed = gateway.failed + 1
       THEN /\ Len(Classified(emitted')) = 1
            /\ Classified(emitted')[1].attempt = Len(Calls')
            /\ Classified(emitted')[1].attempt \in 1..3
            /\ Classified(emitted')[1].level \in {"warning", "error"}
            /\ Len(Terminal(emitted')) = IF Len(Calls') = 3 THEN 1 ELSE 0
            /\ \A i \in 1..Len(Calls') : ~Calls'[i].ok
       ELSE emitted' # emitted =>
               /\ Classified(emitted') = << >>
               /\ Terminal(emitted') = << >>]_vars

\* The third attempt of a push failed with a connection error: the
\* classified record and the terminal record were written.
C32_Witness ==
    /\ pc = "pushed"
    /\ Len(Calls) = 3
    /\ emitted = << [level |-> "warning", kind |-> "ConnectionError",
                     attempt |-> 3],
                    [level |-> "error", kind |-> "push_failed",
                     attempt |-> 3] >>

\* C33: handling a request, on /health or on another path, leaves the
\* trainer as it is: the samples, the model name and the configured number
\* of epochs are the same after the step as before it.
C33_HandlerLeavesRunState ==
    [][(request' # request \/ response' # response) =>
         /\ metrics' = metrics
         /\ model_name' = model_name
         /\ epochs' = epochs]_vars

\* A request on an unknown path was answered during the second backoff
\* sleep of epoch 2.
C33_Witness ==
    /\ response.code = 404
    /\ response.path = "/nope"
    /\ request = "none"
    /\ pc = "backoff"
    /\ attempt = 1
    /\ Len(metrics) = 2

\* C34: the health check server can neither block nor crash the run:
\* whatever request is pending, being handled, answered or failed, the
\* next step of the main thread is enabled until run_training returns, and
\* a step of the server thread changes nothing the main thread reads or
\* writes, so the run goes on to the outcome it has without requests.
C34_EndpointCannotBlockOrCrash ==
    /\ [](pc \in {"run", "loop", "training", "push", "backoff", "pushed"}
            => ENABLED MainStep)
    /\ [][(request' # request \/ response' # response
              \/ observed' # observed) =>
            UNCHANGED << pc, epoch, trainerVars, registryVars, pushVars,
                         emitted, results, saved, exit_code, runs,
                         interrupted >>]_vars

\* The third attempt of a push is about to be made while a request is
\* being handled after the handler of an earlier one raised.
C34_Witness ==
    /\ pc = "push"
    /\ attempt = 2
    /\ request = "/health"
    /\ response = [code |-> 0, path |-> "/nope"]

\* C35: in every state of a run the i-th sample of the list has epoch i:
\* the epochs stored are 1, 2, ... without gap or repetition.
C35_IndicesContiguous ==
    /\ \A i \in 1..Len(metrics) : metrics[i].epoch = i
    /\ \A i \in 1..Len(metrics) : \A j \in 1..Len(metrics) :
          i < j => metrics[i].epoch < metrics[j].epoch
    /\ Len(metrics) <= epoch

\* Four samples, the push of the fourth returned.
C35_Witness ==
    /\ Len(metrics) = 4
    /\ metrics[4].epoch = 4
    /\ metrics[1].epoch = 1
    /\ pc = "pushed"

\* C36: when the generator raises in epoch k the step has no partial
\* effect: the list is as it was after epoch k - 1, no gateway call is made
\* and no gauge set for epoch k, run_training returns, and nothing of a
\* later epoch is executed.
C36_GeneratorFaultAtomic ==
    /\ [][(results.status = "none" /\ results'.status = "failed"
              /\ results'.error = GeneratorError) =>
            /\ metrics' = metrics
            /\ Len(metrics) = epoch - 1
            /\ current' = current
            /\ current.epoch < epoch
            /\ gateway' = gateway
            /\ events' = events
            /\ accuracy_gauge' = accuracy_gauge
            /\ epoch_counter' = epoch_counter
            /\ saved' = saved
            /\ pc' = "returned"]_vars
    /\ [][(results.status = "failed" /\ results.error = GeneratorError) =>
            /\ metrics' = metrics
            /\ current' = current
            /\ epoch' = epoch
            /\ gateway' = gateway
            /\ events' = events
            /\ epoch_counter' = epoch_counter
            /\ pc' \in {"returned", "finally", "exited", "blocked"}]_vars

\* The generator raised in epoch 3 of 3 after two pushes of 3 failed
\* attempts each.
C36_Witness ==
    /\ results.status = "failed"
    /\ results.error = GeneratorError
    /\ epochs = 3
    /\ epoch = 3
    /\ Len(metrics) = 2
    /\ gateway = [calls |-> 6, failed |-> 6]
    /\ current.epoch = 2

\* C37: a /health request answered while epoch k is being pushed (between
\* its attempts, in its backoff sleeps, or after its push returned) reports
\* epochs_completed = k, one answered in the sleep of train_epoch that
\* stands for the work of epoch k reports k - 1.
C37_HealthDuringPush ==
    [][(request = "/health" /\ request' = "none" /\ response'.code = 200) =>
         /\ pc \in {"push", "backoff", "pushed"} =>
               response'.body.epochs_completed = epoch
         /\ pc = "training" =>
               response'.body.epochs_completed = epoch - 1]_vars

\* /health answered 2 in the second backoff sleep of the push of epoch 2.
C37_Witness ==
    /\ pc = "backoff"
    /\ attempt = 1
    /\ epoch = 2
    /\ request = "none"
    /\ response.code = 200
    /\ response.body.epochs_completed = 2

\* C38: a backoff sleep comes only directly after a failed attempt that is
\* not the third: nothing follows a successful attempt or the third
\* attempt, so a push sleeps at most twice and not at all when its first
\* attempt succeeds.
C38_SleepOnlyBetweenAttempts ==
    /\ \A i \in 1..Len(events) :
          events[i].type = "sleep" =>
             /\ i > 1
             /\ events[i - 1].type = "call"
             /\ ~events[i - 1].ok
             /\ Len(SelectSeq(SubSeq(events, 1, i), IsCall)) < 3
    /\ \A i \in 1..Len(events) :
          (events[i].type = "call"
              /\ (events[i].ok
                     \/ Len(SelectSeq(SubSeq(events, 1, i), IsCall)) = 3))
             => i = Len(events)
    /\ Len(Sleeps) <= 2
    /\ (Calls # << >> /\ Calls[1].ok) => Sleeps = << >>
    /\ pc = "backoff" => events[Len(events)].type = "sleep"

\* A push that failed, slept 1 s and then succeeded.
C38_Witness ==
    /\ pc = "pushed"
    /\ events = << [type |-> "call", ok |-> FALSE, delay |-> 0],
                   [type |-> "sleep", ok |-> FALSE, delay |-> 1],
                   [type |-> "call", ok |-> TRUE, delay |-> 0] >>

\* C39: a run on a trainer constructed with 0 epochs executes no epoch and
\* no push, writes no snapshot and returns a failed summary with
\* epochs_completed = 0 and the IndexError of the empty list as its error.
C39_ZeroEpochsFails ==
    epochs = 0 =>
       /\ epoch = 0
       /\ metrics = << >>
       /\ current = NoSample
       /\ gateway = [calls |-> 0, failed |-> 0]
       /\ saved = NoSnapshot
       /\ pc \notin {"training", "push", "backoff", "pushed"}
       /\ Returned =>
             /\ results.status = "failed"
             /\ results.epochs_completed = 0
             /\ results.error = "list index out of range"
       /\ pc = "exited" => (Returned /\ exit_code = 1)

\* main returned 1 after a run of 0 epochs.
C39_Witness ==
    /\ epochs = 0
    /\ results.status = "failed"
    /\ results.epochs_completed = 0
    /\ pc = "exited"
    /\ exit_code = 1

====
